---- MODULE Spec2Model ----
(***************************************************************************)
(* Extractable Witness Encryption (src/we.rs): the orchestrator WE that    *)
(* composes a witness KEM with a keystream-XOR cipher.                     *)
(*                                                                         *)
(* The KEM, the commitment scheme and the polynomial utilities live in     *)
(* other files of the crate (crate::kem, crate::kzg, crate::pol_op); they  *)
(* are modelled here at their boundary: symbolic commitments, witnesses    *)
(* and key ciphertexts, a keystream that is a deterministic byte sequence  *)
(* of the shared secret, and a failure oracle for every KEM call.          *)
(***************************************************************************)
EXTENDS Integers, Sequences, FiniteSets, TLC

VARIABLES we, sent, call, kemLog, prevDec, thr

vars == <<we, sent, call, kemLog, prevDec, thr>>

----------------------------------------------------------------------------
(* Bounds of the model *)

\* scalar field elements are 0 .. FieldSize-1
FieldSize == 3
\* messages have at most MaxMsgLen bytes
MaxMsgLen == 2
\* a batch has at most MaxBatch points
MaxBatch == 2
\* the KEM's per-call randomness is drawn from 1 .. MaxRand
MaxRand == 2
\* the KEM can fail with MaxErrCode different errors per operation
MaxErrCode == 2
\* the threads that share one orchestrator
NThreads == 2

\* u8: the element type of messages, ciphertexts and keystream output
U8Bits == 8

RECURSIVE Pow2(_)
Pow2(n) == IF n = 0 THEN 1 ELSE 2 * Pow2(n - 1)

U8Mod == Pow2(U8Bits)

Field == 0 .. (FieldSize - 1)

\* the text messages are cut from: 'h', a byte with all bits set, a zero byte, then
\* the rest of b"helloworld"
MsgText == <<104, U8Mod - 1, 0, 101, 108, 108, 111, 119, 111, 114, 108, 100>>

\* the messages: the first 0 .. MaxMsgLen bytes of the text, repeated when it runs out
Messages == {[i \in 1..n |-> MsgText[((i - 1) % Len(MsgText)) + 1]] : n \in 0..MaxMsgLen}

\* the point sequences of a batch: from any point on, the same point again or the next one
PointSeqs ==
    {[i \in 1..n |-> (start + (i - 1) * step) % FieldSize] :
        start \in Field, step \in {0, 1}, n \in 0..MaxBatch}

\* p(x) = 1 + 2x and p(x) = 2 + x^2 (coefficients, lowest degree first)
Polys == {<<1, 2>>, <<2, 0, 1>>}

----------------------------------------------------------------------------
(* Result<T, E>, and the abort of a panicking call *)

Ok(v) == [tag |-> "Ok", val |-> v]
Err(e) == [tag |-> "Err", err |-> e]
\* a slice index out of range: the call unwinds and returns nothing
Panic(index, len) == [tag |-> "Panic", why |-> "index out of bounds", index |-> index, len |-> len]

IsOk(r) == r.tag = "Ok"
IsErr(r) == r.tag = "Err"
IsPanic(r) == r.tag = "Panic"

----------------------------------------------------------------------------
(* Collaborators, at their boundary *)

\* pol_op::evaluate_polynomial, Horner's rule in the scalar field
RECURSIVE evaluate_polynomial(_, _)
evaluate_polynomial(p, x) ==
    IF p = <<>> THEN 0
    ELSE (Head(p) + x * evaluate_polynomial(Tail(p), x)) % FieldSize

\* KZG::commit: a binding commitment, symbolic
commit(p) == [commitment_to |-> p]

\* KZG::open: the opening proof of the statement "p(x) = p(x)"
open(p, x) == [com |-> commit(p), point |-> x, value |-> evaluate_polynomial(p, x)]

\* the KZG setup held by the KEM
Kzg0 == [max_degree |-> 2, secret |-> 1]

\* KEM::new
KEM_new(kzg) == [kzg |-> kzg]

Kem0 == KEM_new(Kzg0)

\* the errors a KEM call can return
KEMError == [kind : {"KEMEncapsulationError", "KEMDecapsulationError"}, code : 1..MaxErrCode]

EncapErrors == {e \in KEMError : e.kind = "KEMEncapsulationError"}
DecapErrors == {e \in KEMError : e.kind = "KEMDecapsulationError"}

\* what the environment decides for one KEM call: the randomness and the outcome
NoError == [kind |-> "none", code |-> 0]

EncapOracle == [r : 1..MaxRand, fail : {NoError}] \cup [r : {1}, fail : EncapErrors]

\* the randomness of the n encapsulations of a batch: from any value on, the same value
\* again or the next one
RandSeqs(n) ==
    {[i \in 1..n |-> ((first + (i - 1) * step) % MaxRand) + 1] :
        first \in 0..(MaxRand - 1), step \in {0, 1}}

\* the oracles of the n encapsulations of a batch, none failing or only encapsulation f
OracleSeqs(n) ==
    {[i \in 1..n |-> [r |-> rs[i], fail |-> NoError]] : rs \in RandSeqs(n)}
    \cup {[i \in 1..n |-> IF i = f THEN [r |-> 1, fail |-> e]
                                   ELSE [r |-> rs[i], fail |-> NoError]] :
             rs \in RandSeqs(n), f \in 1..n, e \in EncapErrors}
DecapOracle == [fail : {NoError} \cup DecapErrors]

RECURSIVE SeqCode(_)
SeqCode(s) == IF s = <<>> THEN 1 ELSE 1 + Head(s) + (FieldSize + 1) * SeqCode(Tail(s))

StmtCode(com, point, value) ==
    (SeqCode(com.commitment_to) * FieldSize + point) * FieldSize + value

\* the shared secret of a statement and an encapsulation's randomness
SharedSecret(kem, com, point, value, r) ==
    2 * ((StmtCode(com, point, value) * (MaxRand + 1) + r) * 2 + kem.kzg.secret)

\* what decapsulation derives from a witness of another statement
ForeignSecret(kem, proof, key_ct) ==
    2 * ((StmtCode(proof.com, proof.point, proof.value) * 7
          + SharedSecret(kem, key_ct.com, key_ct.point, key_ct.value, key_ct.r)) * 2
         + kem.kzg.secret) + 1

\* the keystream of a shared secret: a reader at position pos of an endless byte sequence
Keystream(secret) == [secret |-> secret, pos |-> 0]

KeystreamByte(secret, k) ==
    LET lo == secret % U8Mod
        hi == (secret \div U8Mod) % U8Mod
    IN  (lo * lo * 3 + lo * 31 + hi * 13 + k * 17 + lo * k * 7 + 11) % U8Mod

\* key_stream.fill(buf): overwrite every byte of buf with the next bytes of the stream
fill(key_stream, buf) ==
    [out |-> [i \in 1..Len(buf) |-> KeystreamByte(key_stream.secret, key_stream.pos + i)],
     key_stream |-> [key_stream EXCEPT !.pos = @ + Len(buf)]]

\* KEM::encapsulate(com, point, value) -> Result<(key_ct, key_stream), KEMError>
encapsulate(kem, com, point, value, o) ==
    IF o.fail # NoError THEN Err(o.fail)
    ELSE Ok(<<[com |-> com, point |-> point, value |-> value, r |-> o.r],
              Keystream(SharedSecret(kem, com, point, value, o.r))>>)

\* KEM::decapsulate(proof, key_ct) -> Result<key_stream, KEMError>
decapsulate(kem, proof, key_ct, o) ==
    IF o.fail # NoError THEN Err(o.fail)
    ELSE IF proof.com = key_ct.com /\ proof.point = key_ct.point /\ proof.value = key_ct.value
         THEN Ok(Keystream(SharedSecret(kem, key_ct.com, key_ct.point, key_ct.value, key_ct.r)))
         ELSE Ok(Keystream(ForeignSecret(kem, proof, key_ct)))

----------------------------------------------------------------------------
(* src/we.rs *)

\* a ^ b on u8
RECURSIVE BitXor(_, _, _)
BitXor(a, b, n) ==
    IF n = 0 THEN 0
    ELSE (((a % 2) + (b % 2)) % 2) + 2 * BitXor(a \div 2, b \div 2, n - 1)

\* a | b on u8
RECURSIVE BitOr(_, _, _)
BitOr(a, b, n) ==
    IF n = 0 THEN 0
    ELSE (IF (a % 2) + (b % 2) > 0 THEN 1 ELSE 0) + 2 * BitOr(a \div 2, b \div 2, n - 1)

\* the XOR written as an OR
XorU8_or(a, b) == BitOr(a, b, U8Bits)

XorU8(a, b) == BitXor(a, b, U8Bits)

\* a buffer one byte too long
ZeroVec_long(n) == [i \in 1..(n + 1) |-> 0]

\* vec![0u8; n]
ZeroVec(n) == [i \in 1..n |-> 0]

\* the loop stopping one byte early: for i in 0..n-1
XorLoop_short(buf, other, n) ==
    [i \in 1..Len(buf) |-> IF i < n THEN XorU8(buf[i], other[i]) ELSE buf[i]]

\* for i in 0..n { buf[i] ^= other[i]; }
XorLoop(buf, other, n) ==
    [i \in 1..Len(buf) |-> IF i <= n THEN XorU8(buf[i], other[i]) ELSE buf[i]]

\* WE::new
new(kem) == [kem |-> kem]

\* a conversion that keeps the kind of the KEM error and drops the rest
from_kind_only(error) == [variant |-> "KEMError", inner |-> [error EXCEPT !.code = 1]]

\* impl From<KEMError> for WEError
from(error) == [variant |-> "KEMError", inner |-> error]

\* the `?` operator on a Result<_, KEMError> inside a function returning Result<_, WEError>
Try(r) == IF IsErr(r) THEN Err(from(r.err)) ELSE r

\* WE::encrypt_single; log is the sequence of KEM calls it made, drawn the number of
\* bytes it took from the keystream
encrypt_single(self, com, point, value, msg, o) ==
    LET kemOut == encapsulate(self.kem, com, point, value, o)
        kemCall == [fn |-> "encapsulate", com |-> com, point |-> point,
                    value |-> value, out |-> kemOut]
        r == Try(kemOut)
    IN  IF IsErr(r) THEN [ret |-> r, log |-> <<kemCall>>, drawn |-> 0]
        ELSE LET key_ct == r.val[1]
                 key_stream == r.val[2]
                 zeroed == ZeroVec(Len(msg))
                 filled == fill(key_stream, zeroed)
                 msg_ct == XorLoop(filled.out, msg, Len(msg))
             IN  [ret |-> Ok(<<key_ct, msg_ct>>), log |-> <<kemCall>>,
                  drawn |-> filled.key_stream.pos]

\* a decrypt_single that rejects a witness of another statement than the key ciphertext's
decrypt_single_rejecting(self, proof, key_ct, msg_ct, o) ==
    LET kemOut == decapsulate(self.kem, proof, key_ct, o)
        kemCall == [fn |-> "decapsulate", proof |-> proof, key_ct |-> key_ct, out |-> kemOut]
        r == Try(kemOut)
    IN  IF IsErr(r) \/ proof.point # key_ct.point
        THEN [ret |-> Err(from([kind |-> "KEMDecapsulationError", code |-> 1])),
              log |-> <<kemCall>>, drawn |-> 0]
        ELSE LET filled == fill(r.val, ZeroVec(Len(msg_ct)))
             IN  [ret |-> Ok(XorLoop(filled.out, msg_ct, Len(msg_ct))), log |-> <<kemCall>>,
                  drawn |-> filled.key_stream.pos]

\* WE::decrypt_single
decrypt_single(self, proof, key_ct, msg_ct, o) ==
    LET kemOut == decapsulate(self.kem, proof, key_ct, o)
        kemCall == [fn |-> "decapsulate", proof |-> proof, key_ct |-> key_ct, out |-> kemOut]
        r == Try(kemOut)
    IN  IF IsErr(r) THEN [ret |-> r, log |-> <<kemCall>>, drawn |-> 0]
        ELSE LET key_stream == r.val
                 zeroed == ZeroVec(Len(msg_ct))
                 filled == fill(key_stream, zeroed)
                 msg == XorLoop(filled.out, msg_ct, Len(msg_ct))
             IN  [ret |-> Ok(msg), log |-> <<kemCall>>, drawn |-> filled.key_stream.pos]

\* the loop of WE::encrypt from index i (0-based i is i-1 here), cts pushed so far
RECURSIVE encrypt_loop(_, _, _, _, _, _, _, _, _)
encrypt_loop(self, com, points, values, msg, os, i, cts, log) ==
    IF i > Len(points) THEN [ret |-> Ok(cts), log |-> log]
    ELSE IF i > Len(values)
         THEN [ret |-> Panic(i - 1, Len(values)), log |-> log]
         ELSE LET one == encrypt_single(self, com, points[i], values[i], msg, os[i])
              IN  IF IsErr(one.ret) THEN [ret |-> one.ret, log |-> log \o one.log]
                  ELSE encrypt_loop(self, com, points, values, msg, os, i + 1,
                                    Append(cts, one.ret.val), log \o one.log)

\* the loop inserting each ciphertext at the front of cts
RECURSIVE encrypt_loop_front(_, _, _, _, _, _, _, _, _)
encrypt_loop_front(self, com, points, values, msg, os, i, cts, log) ==
    IF i > Len(points) THEN [ret |-> Ok(cts), log |-> log]
    ELSE IF i > Len(values)
         THEN [ret |-> Panic(i - 1, Len(values)), log |-> log]
         ELSE LET one == encrypt_single(self, com, points[i], values[i], msg, os[i])
              IN  IF IsErr(one.ret) THEN [ret |-> one.ret, log |-> log \o one.log]
                  ELSE encrypt_loop_front(self, com, points, values, msg, os, i + 1,
                                          <<one.ret.val>> \o cts, log \o one.log)

encrypt_front(self, com, points, values, msg, os) ==
    encrypt_loop_front(self, com, points, values, msg, os, 1, <<>>, <<>>)

\* the loop skipping a statement whose encapsulation fails and going on with the next
RECURSIVE encrypt_loop_skip(_, _, _, _, _, _, _, _, _)
encrypt_loop_skip(self, com, points, values, msg, os, i, cts, log) ==
    IF i > Len(points) THEN [ret |-> Ok(cts), log |-> log]
    ELSE IF i > Len(values)
         THEN [ret |-> Panic(i - 1, Len(values)), log |-> log]
         ELSE LET one == encrypt_single(self, com, points[i], values[i], msg, os[i])
              IN  encrypt_loop_skip(self, com, points, values, msg, os, i + 1,
                                    IF IsErr(one.ret) THEN cts ELSE Append(cts, one.ret.val),
                                    log \o one.log)

encrypt_skip(self, com, points, values, msg, os) ==
    encrypt_loop_skip(self, com, points, values, msg, os, 1, <<>>, <<>>)

\* the loop over points zipped with values: it ends with the shorter of the two
RECURSIVE encrypt_loop_zip(_, _, _, _, _, _, _, _, _)
encrypt_loop_zip(self, com, points, values, msg, os, i, cts, log) ==
    IF i > Len(points) \/ i > Len(values) THEN [ret |-> Ok(cts), log |-> log]
    ELSE LET one == encrypt_single(self, com, points[i], values[i], msg, os[i])
         IN  IF IsErr(one.ret) THEN [ret |-> one.ret, log |-> log \o one.log]
             ELSE encrypt_loop_zip(self, com, points, values, msg, os, i + 1,
                                   Append(cts, one.ret.val), log \o one.log)

encrypt_zip(self, com, points, values, msg, os) ==
    encrypt_loop_zip(self, com, points, values, msg, os, 1, <<>>, <<>>)

\* WE::encrypt
encrypt(self, com, points, values, msg, os) ==
    encrypt_loop(self, com, points, values, msg, os, 1, <<>>, <<>>)

----------------------------------------------------------------------------
(* The state machine: a caller that holds one orchestrator and calls it.   *)
(* sent is what the last encryption handed to the receiver (nothing when   *)
(* it failed), call the last call with its arguments and its result,       *)
(* kemLog the KEM calls that call made, in order. thr belongs to the       *)
(* threads of SpecThreads, further down.                                   *)

Threads == 1..NThreads
Idle == [pc |-> "idle"]

NoCall == [op |-> "none"]
NoSent == [n |-> 0]

Init ==
    /\ we = new(Kem0)
    /\ sent = NoSent
    /\ call = NoCall
    /\ kemLog = <<>>
    /\ prevDec = NoCall
    /\ thr = [t \in Threads |-> Idle]

\* we.encrypt_single(commit(p), point, value, msg)
EncryptSingle ==
    /\ call = NoCall
    /\ \E p \in Polys, point \in Field, value \in Field, msg \in Messages, o \in EncapOracle :
        LET com == commit(p)
            res == encrypt_single(we, com, point, value, msg, o)
        IN  /\ call' = [op |-> "encrypt_single", com |-> com, point |-> point,
                        value |-> value, msg |-> msg, os |-> <<o>>, ret |-> res.ret,
                        drawn |-> res.drawn]
            /\ kemLog' = res.log
            /\ sent' = IF IsOk(res.ret)
                       THEN [n |-> 1, by |-> "encrypt_single", poly |-> p, points |-> <<point>>, values |-> <<value>>,
                             msg |-> msg, cts |-> <<res.ret.val>>]
                       ELSE NoSent
            /\ prevDec' = NoCall
            /\ UNCHANGED <<we, thr>>

\* the values a caller passes with points: the evaluations of p, or those with the
\* last one dropped, one more appended, or the first one wrong
ValueChoices(p, points) ==
    LET vals == [i \in 1..Len(points) |-> evaluate_polynomial(p, points[i])]
    IN  {vals, Append(vals, 0)}
        \cup (IF vals = <<>> THEN {}
              ELSE {SubSeq(vals, 1, Len(vals) - 1),
                    [vals EXCEPT ![1] = (@ + 1) % FieldSize]})

\* we.encrypt(commit(p), points, values, msg)
Encrypt ==
    /\ call = NoCall
    /\ \E p \in Polys, points \in PointSeqs, msg \in Messages :
       \E values \in ValueChoices(p, points), os \in OracleSeqs(Len(points)) :
        LET com == commit(p)
            res == encrypt(we, com, points, values, msg, os)
        IN  \* os keeps the oracles of the encapsulations that were made
            /\ call' = [op |-> "encrypt", com |-> com, points |-> points,
                        values |-> values, msg |-> msg,
                        os |-> SubSeq(os, 1, Len(res.log)), ret |-> res.ret]
            /\ kemLog' = res.log
            /\ sent' = IF IsOk(res.ret) /\ res.ret.val # <<>>
                       THEN [n |-> Len(res.ret.val), by |-> "encrypt", poly |-> p, points |-> points,
                             values |-> values, msg |-> msg, cts |-> res.ret.val]
                       ELSE NoSent
            /\ prevDec' = NoCall
            /\ UNCHANGED <<we, thr>>

\* the message ciphertexts a receiver may hand in: as sent, cut short, or extended
CtChoices(ct) ==
    {ct, Append(ct, 0)} \cup (IF ct = <<>> THEN {} ELSE {SubSeq(ct, 1, Len(ct) - 1)})

\* the witnesses a receiver may hold for entry j: an opening of the committed polynomial
\* at any point, or an opening of any polynomial at the entry's point
WitnessChoices(j) ==
    {open(sent.poly, x) : x \in Field} \cup {open(q, sent.points[j]) : q \in Polys}

\* we.decrypt_single(proof, key_ct, msg_ct) on entry j of the last encryption; a failing
\* decapsulation never gets to read msg_ct, so it is tried with the ciphertext as sent only
DecryptSingle ==
    /\ call.op \in {"encrypt", "encrypt_single"}
    /\ sent.n > 0
    /\ \E j \in 1..sent.n, o \in DecapOracle :
       \E proof \in WitnessChoices(j),
          msg_ct \in IF o.fail = NoError THEN CtChoices(sent.cts[j][2])
                                         ELSE {sent.cts[j][2]} :
        LET key_ct == sent.cts[j][1]
            res == decrypt_single(we, proof, key_ct, msg_ct, o)
        IN  /\ call' = [op |-> "decrypt_single", proof |-> proof, key_ct |-> key_ct,
                        msg_ct |-> msg_ct, os |-> <<o>>, ret |-> res.ret, entry |-> j,
                        drawn |-> res.drawn]
            /\ kemLog' = res.log
            /\ prevDec' = NoCall
            /\ UNCHANGED <<we, sent, thr>>

\* the XOR differences an attacker applies to one ciphertext byte
Deltas == {1, 130}

\* we.decrypt_single again after one that went through, on the ciphertext as sent with
\* byte k changed by d
DecryptTampered ==
    /\ call.op = "decrypt_single"
    /\ prevDec = NoCall
    /\ IsOk(call.ret)
    /\ call.msg_ct = sent.cts[call.entry][2]
    /\ \E k \in 1..Len(call.msg_ct), d \in Deltas :
        LET msg_ct == [call.msg_ct EXCEPT ![k] = XorU8(@, d)]
            res == decrypt_single(we, call.proof, call.key_ct, msg_ct, call.os[1])
        IN  /\ call' = [call EXCEPT !.msg_ct = msg_ct, !.ret = res.ret, !.drawn = res.drawn]
            /\ kemLog' = res.log
            /\ prevDec' = [op |-> "decrypt_single", msg_ct |-> call.msg_ct, ret |-> call.ret,
                           k |-> k, d |-> d]
            /\ UNCHANGED <<we, sent, thr>>

\* the caller drops what it kept of the last calls and starts over, with the same orchestrator
Forget ==
    /\ call # NoCall
    /\ call' = NoCall
    /\ sent' = NoSent
    /\ kemLog' = <<>>
    /\ prevDec' = NoCall
    /\ UNCHANGED <<we, thr>>

Next ==
    \/ Forget
    \/ EncryptSingle
    \/ Encrypt
    \/ DecryptSingle
    \/ DecryptTampered

Spec == Init /\ [][Next]_vars

----------------------------------------------------------------------------
(* Threads sharing the orchestrator by reference (&self). Each thread calls *)
(* one operation at a time on we; the loop of encrypt takes one step per    *)
(* iteration, so that the calls of different threads interleave. What a     *)
(* call keeps (its arguments, i, cts) is local to its thread; the KEM's     *)
(* randomness and outcome are drawn when the encapsulation is made and      *)
(* recorded in os.                                                          *)

ThreadPoly == <<1, 2>>
ThreadMsg == <<104, U8Mod - 1>>
ThreadPoints == {<<0>>, <<0, 1>>}

\* the values a thread passes with points: the evaluations, or those without the last
ThreadValues(points) ==
    LET vals == [i \in 1..Len(points) |-> evaluate_polynomial(ThreadPoly, points[i])]
    IN  {vals, SubSeq(vals, 1, Len(vals) - 1)}

\* the outcomes of a KEM call in a thread: either of two random values, or an error
ThreadEncapOracle == {o \in EncapOracle : o.r <= 2 /\ o.fail.code <= 1}
ThreadDecapOracle == {o \in DecapOracle : o.fail.code <= 1}

seqVars == <<sent, call, kemLog, prevDec>>

\* thread t calls we.encrypt(commit(p), points, values, msg) and enters the loop
CallEncrypt(t) ==
    /\ thr[t].pc = "idle"
    /\ \E points \in ThreadPoints :
       \E values \in ThreadValues(points) :
          thr' = [thr EXCEPT ![t] =
                     [pc |-> "loop", op |-> "encrypt", com |-> commit(ThreadPoly),
                      points |-> points, values |-> values, msg |-> ThreadMsg,
                      os |-> <<>>, i |-> 1, cts |-> <<>>]]
    /\ UNCHANGED <<we, seqVars>>

\* what one iteration of `for i in 0..points.len()`, or the return after the last one,
\* does to the locals of thread t
IterLocals(t) ==
    /\ thr[t].pc = "loop"
    /\ LET c == thr[t]
       IN  IF c.i > Len(c.points)
           THEN thr' = [thr EXCEPT ![t] = [c EXCEPT !.pc = "done"] @@ [ret |-> Ok(c.cts)]]
           ELSE IF c.i > Len(c.values)
           THEN thr' = [thr EXCEPT ![t] = [c EXCEPT !.pc = "done"]
                                          @@ [ret |-> Panic(c.i - 1, Len(c.values))]]
           ELSE \E o \in ThreadEncapOracle :
                  LET one == encrypt_single(we, c.com, c.points[c.i], c.values[c.i], c.msg, o)
                  IN  IF IsErr(one.ret)
                      THEN thr' = [thr EXCEPT ![t] =
                                      [c EXCEPT !.pc = "done", !.os = Append(@, o)]
                                      @@ [ret |-> one.ret]]
                      ELSE thr' = [thr EXCEPT ![t] =
                                      [c EXCEPT !.i = @ + 1, !.os = Append(@, o),
                                                !.cts = Append(@, one.ret.val)]]

\* an iteration that also rekeys the KEM setup held by the orchestrator
EncryptIter_rekeying(t) ==
    /\ IterLocals(t)
    /\ we' = [we EXCEPT !.kem.kzg.secret = @ + 1]
    /\ UNCHANGED seqVars

\* one step of WE::encrypt in thread t
EncryptIter(t) ==
    /\ IterLocals(t)
    /\ UNCHANGED <<we, seqVars>>

\* thread t calls we.encrypt_single(commit(p), point, value, msg)
CallEncryptSingle(t) ==
    /\ thr[t].pc = "idle"
    /\ \E point \in {0, 1}, o \in ThreadEncapOracle :
          LET com == commit(ThreadPoly)
              value == evaluate_polynomial(ThreadPoly, point)
          IN  thr' = [thr EXCEPT ![t] =
                         [pc |-> "done", op |-> "encrypt_single", com |-> com,
                          point |-> point, value |-> value, msg |-> ThreadMsg, os |-> <<o>>,
                          ret |-> encrypt_single(we, com, point, value, ThreadMsg, o).ret]]
    /\ UNCHANGED <<we, seqVars>>

\* thread t calls we.decrypt_single on a ciphertext made for point 0 with randomness 1
CallDecryptSingle(t) ==
    /\ thr[t].pc = "idle"
    /\ \E x \in {0, 1}, o \in ThreadDecapOracle :
          LET com == commit(ThreadPoly)
              made == encrypt_single(new(Kem0), com, 0, evaluate_polynomial(ThreadPoly, 0),
                                     ThreadMsg, [r |-> 1, fail |-> NoError]).ret.val
              proof == open(ThreadPoly, x)
          IN  thr' = [thr EXCEPT ![t] =
                         [pc |-> "done", op |-> "decrypt_single", proof |-> proof,
                          key_ct |-> made[1], msg_ct |-> made[2], os |-> <<o>>,
                          ret |-> decrypt_single(we, proof, made[1], made[2], o).ret]]
    /\ UNCHANGED <<we, seqVars>>

\* thread t has its result and is free for the next call
Return(t) ==
    /\ thr[t].pc = "done"
    /\ thr' = [thr EXCEPT ![t] = Idle]
    /\ UNCHANGED <<we, seqVars>>

NextThreads ==
    \E t \in Threads :
        \/ CallEncrypt(t)
        \/ EncryptIter(t)
        \/ CallEncryptSingle(t)
        \/ CallDecryptSingle(t)
        \/ Return(t)

SpecThreads == Init /\ [][NextThreads]_vars

----------------------------------------------------------------------------
(* Properties *)

\* the value of each bit of a byte
BitValue == [k \in 0..(U8Bits - 1) |-> Pow2(k)]

\* bit k of byte a is set
BitSet(a, k) == (a \div BitValue[k]) % 2 = 1

\* c = a XOR b: a bit of c is set exactly when that bit differs between a and b
IsXorOf(c, a, b) ==
    /\ c \in 0..(U8Mod - 1)
    /\ \A k \in 0..(U8Bits - 1) : BitSet(c, k) <=> (BitSet(a, k) # BitSet(b, k))

\* the KEM calls of the last call that returned an error
FailedKemCalls == {i \in 1..Len(kemLog) : IsErr(kemLog[i].out)}

\* the last call decrypted entry j of the last encryption, as sent, with the witness that
\* opens the committed polynomial at that entry's point, the entry's statement being true,
\* and the decapsulation went through
MatchingDecryption ==
    /\ call.op = "decrypt_single"
    /\ prevDec = NoCall
    /\ sent.values[call.entry] = evaluate_polynomial(sent.poly, sent.points[call.entry])
    /\ call.proof = open(sent.poly, sent.points[call.entry])
    /\ call.key_ct = sent.cts[call.entry][1]
    /\ call.msg_ct = sent.cts[call.entry][2]
    /\ IsOk(kemLog[1].out)

\* C1: round trip. A message encrypted by encrypt_single for a true statement (v = p(x)) and
\* decrypted by decrypt_single with the witness open(p, x), the key ciphertext and the message
\* ciphertext of that encryption comes back exactly, the empty message included.
C1_RoundTrip ==
    (MatchingDecryption /\ sent.by = "encrypt_single") => call.ret = Ok(sent.msg)

C1_Witness ==
    /\ MatchingDecryption
    /\ sent.by = "encrypt_single"
    /\ Len(sent.msg) >= 2
    /\ call.ret = Ok(sent.msg)

\* C2: length preservation. A successful encrypt_single returns a message ciphertext as long
\* as the message, a successful decrypt_single a plaintext as long as the message ciphertext;
\* an empty input gives an empty output.
C2_LengthPreserved ==
    /\ (call.op = "encrypt_single" /\ IsOk(call.ret)) =>
            Len(call.ret.val[2]) = Len(call.msg)
    /\ (call.op = "decrypt_single" /\ IsOk(call.ret)) =>
            Len(call.ret.val) = Len(call.msg_ct)

C2_Witness ==
    /\ call.op = "decrypt_single"
    /\ sent.by = "encrypt_single"
    /\ sent.msg = <<>>
    /\ call.msg_ct = <<>>
    /\ call.ret = Ok(<<>>)

\* C3: batch order. For points and values of equal length a successful encrypt returns
\* len(points) entries, entry i being what encrypt_single returns for points[i], values[i]
\* and the i-th encapsulation, the encapsulations made in index order; and entry i of a
\* batch decrypts back to the message with the witness open(p, points[i]).
C3_BatchOrder ==
    /\ (call.op = "encrypt" /\ Len(call.points) = Len(call.values) /\ IsOk(call.ret)) =>
          /\ Len(call.ret.val) = Len(call.points)
          /\ Len(kemLog) = Len(call.points)
          /\ \A i \in 1..Len(call.points) :
                /\ call.ret.val[i] =
                      encrypt_single(we, call.com, call.points[i], call.values[i],
                                     call.msg, call.os[i]).ret.val
                /\ kemLog[i].point = call.points[i]
                /\ kemLog[i].value = call.values[i]
                /\ call.ret.val[i][1] = kemLog[i].out.val[1]
    /\ (MatchingDecryption /\ sent.by = "encrypt" /\ Len(sent.points) = Len(sent.values)) =>
          call.ret = Ok(sent.msg)

C3_Witness ==
    /\ MatchingDecryption
    /\ sent.by = "encrypt"
    /\ Len(sent.points) = Len(sent.values)
    /\ call.entry = 2
    /\ sent.points[1] # sent.points[2]
    /\ sent.msg # <<>>
    /\ call.ret = Ok(sent.msg)

\* C4: batch atomicity. In encrypt a failing encapsulation is the last KEM call made, its
\* error is what encrypt returns and no ciphertext comes with it; encrypt returns Ok only
\* when it made one encapsulation per point and all of them succeeded.
C4_BatchAtomic ==
    call.op = "encrypt" =>
        /\ \A i \in FailedKemCalls :
              /\ i = Len(kemLog)
              /\ IsErr(call.ret)
              /\ call.ret.err.inner = kemLog[i].out.err
              /\ DOMAIN call.ret = {"tag", "err"}
        /\ \A i \in 1..Len(kemLog) :
              kemLog[i].point = call.points[i] /\ kemLog[i].value = call.values[i]
        /\ IsOk(call.ret) =>
              (Len(kemLog) = Len(call.points) /\ FailedKemCalls = {})

C4_Witness ==
    /\ call.op = "encrypt"
    /\ Len(call.points) >= 2
    /\ FailedKemCalls = {2}
    /\ IsOk(kemLog[1].out)
    /\ IsErr(call.ret)

\* C5: a witness of another statement is no error. decrypt_single makes one decapsulation;
\* when that succeeds it returns Ok with as many bytes as the message ciphertext, whatever
\* the witness; it returns an error only when the decapsulation returned one.
C5_MismatchNotError ==
    call.op = "decrypt_single" =>
        /\ Len(kemLog) = 1
        /\ IsOk(kemLog[1].out) => (IsOk(call.ret) /\ Len(call.ret.val) = Len(call.msg_ct))
        /\ ~IsOk(call.ret) => (IsErr(call.ret) /\ IsErr(kemLog[1].out))

C5_Witness ==
    /\ call.op = "decrypt_single"
    /\ call.proof.point # call.key_ct.point
    /\ IsOk(kemLog[1].out)
    /\ IsOk(call.ret)
    /\ Len(call.ret.val) >= 1

\* what error transparency says of the last call
ErrorTransparent ==
    /\ ~IsOk(call.ret) <=> FailedKemCalls # {}
    /\ ~IsOk(call.ret) =>
          /\ IsErr(call.ret)
          /\ FailedKemCalls = {Len(kemLog)}
          /\ call.ret.err = [variant |-> "KEMError", inner |-> kemLog[Len(kemLog)].out.err]

\* C7 as stated: every failure of encrypt, encrypt_single and decrypt_single is the error of
\* a failing KEM call, wrapped unchanged, and a call fails if and only if a KEM call of it
\* fails.
C7_ErrorTransparency_AnyInput ==
    call.op # "none" => ErrorTransparent

\* C7, amended: the same for encrypt_single, decrypt_single and every encrypt that is given
\* at least as many values as points. (With fewer values than points encrypt can also abort
\* on an index out of range, which is no WEError and follows no KEM failure.)
C7_ErrorTransparency ==
    (call.op # "none" /\ (call.op = "encrypt" => Len(call.values) >= Len(call.points)))
        => ErrorTransparent

C7_Witness ==
    /\ call.op = "encrypt"
    /\ Len(call.values) >= Len(call.points)
    /\ FailedKemCalls = {2}
    /\ call.ret = Err([variant |-> "KEMError", inner |-> call.os[2].fail])
    /\ call.os[2].fail = [kind |-> "KEMEncapsulationError", code |-> 2]

\* C9: keystream XOR. encrypt_single returns the key ciphertext of encapsulate as it is,
\* draws len(message) bytes of the keystream and byte i of the message ciphertext is byte i
\* of the message XOR byte i of the keystream; decrypt_single likewise on the message
\* ciphertext. So changing byte k of the message ciphertext by d changes byte k of the
\* plaintext by d, changes no other byte, and is not rejected.
C9_KeystreamXor ==
    /\ (call.op = "encrypt_single" /\ IsOk(call.ret)) =>
          LET key_stream == kemLog[1].out.val[2]
              msg_ct == call.ret.val[2]
          IN  /\ call.ret.val[1] = kemLog[1].out.val[1]
              /\ call.drawn = Len(call.msg)
              /\ Len(msg_ct) = Len(call.msg)
              /\ \A i \in 1..Len(call.msg) :
                    IsXorOf(msg_ct[i], call.msg[i], KeystreamByte(key_stream.secret, i))
    /\ (call.op = "decrypt_single" /\ IsOk(call.ret)) =>
          LET key_stream == kemLog[1].out.val
          IN  /\ call.drawn = Len(call.msg_ct)
              /\ Len(call.ret.val) = Len(call.msg_ct)
              /\ \A i \in 1..Len(call.msg_ct) :
                    IsXorOf(call.ret.val[i], call.msg_ct[i],
                            KeystreamByte(key_stream.secret, i))
    /\ (prevDec # NoCall /\ IsOk(prevDec.ret)) =>
          /\ IsOk(call.ret)
          /\ Len(call.ret.val) = Len(prevDec.ret.val)
          /\ \A i \in 1..Len(call.ret.val) :
                IF i = prevDec.k
                THEN IsXorOf(call.ret.val[i], prevDec.ret.val[i], prevDec.d)
                ELSE call.ret.val[i] = prevDec.ret.val[i]

C9_Witness ==
    /\ prevDec # NoCall
    /\ IsOk(prevDec.ret)
    /\ prevDec.k = 2
    /\ IsOk(call.ret)
    /\ call.ret.val[2] # prevDec.ret.val[2]
    /\ call.ret.val[1] = prevDec.ret.val[1]

\* C10: points and values of unequal length. With more values than points a successful
\* encrypt returns len(points) entries, the same as without the surplus values. With fewer
\* values than points, the first len(values) encapsulations succeeding, encrypt aborts on
\* the out-of-range index len(values): no result, no WEError, no further encapsulation.
C10_UnequalLengths ==
    call.op = "encrypt" =>
        /\ (Len(call.values) > Len(call.points) /\ IsOk(call.ret)) =>
              /\ Len(call.ret.val) = Len(call.points)
              /\ call.ret = encrypt(we, call.com, call.points,
                                    SubSeq(call.values, 1, Len(call.points)),
                                    call.msg, call.os).ret
        /\ (Len(call.values) < Len(call.points) /\ FailedKemCalls = {}) =>
              /\ call.ret = Panic(Len(call.values), Len(call.values))
              /\ Len(kemLog) = Len(call.values)

C10_Witness ==
    /\ call.op = "encrypt"
    /\ Len(call.values) = 1
    /\ Len(call.points) = 2
    /\ IsOk(kemLog[1].out)
    /\ IsPanic(call.ret)

\* what a call with the arguments and the KEM randomness of c returns when it is the only
\* call ever made on a fresh orchestrator
AloneOutcome(c) ==
    CASE c.op = "encrypt" ->
            encrypt(new(Kem0), c.com, c.points, c.values, c.msg, c.os).ret
      [] c.op = "encrypt_single" ->
            encrypt_single(new(Kem0), c.com, c.point, c.value, c.msg, c.os[1]).ret
      [] c.op = "decrypt_single" ->
            decrypt_single(new(Kem0), c.proof, c.key_ct, c.msg_ct, c.os[1]).ret

\* C8: statelessness. Whatever calls ran before or run alongside on the same orchestrator,
\* the orchestrator is as new(kem) made it, and a finished call has returned what its own
\* arguments, the KEM configuration and the randomness of its own KEM calls determine.
C8_Stateless ==
    /\ we = new(Kem0)
    /\ \A t \in Threads : thr[t].pc = "done" => thr[t].ret = AloneOutcome(thr[t])

C8_Witness ==
    /\ thr[1].pc = "done"
    /\ thr[1].op = "encrypt"
    /\ IsOk(thr[1].ret)
    /\ Len(thr[1].ret.val) = 2
    /\ thr[2].pc = "loop"
    /\ thr[2].i = 2
    /\ thr[2].os # SubSeq(thr[1].os, 1, 1)
====
